---- MODULE Spec2Model ----
(***************************************************************************)
(* Account-Manger-Telegram-Bot: the in-memory receipt bot (src/main.ts)    *)
(* and the persisted account bot (the TypeScript part of                   *)
(* src/scripts/deploy.sh with its store and utils in src/unnamed/part_000).*)
(*                                                                         *)
(* A JavaScript string is a sequence of one-character strings.             *)
(***************************************************************************)
EXTENDS Integers, Sequences, FiniteSets, TLC

\* ------------------------------------------------------------------ bounds
MaxLen == 6
MaxEntries == 2
NumUsers == 2
MaxAccounts == 1

\* ------------------------------------------------------- characters, strings
Alphabet == {"a", "1", "+", "-", " "}
Digits == {"0", "1", "2", "3", "4", "5", "6", "7", "8", "9"}
\* null is a record no result equals; undefined is a sequence no string equals
Null == [null |-> TRUE]
NaN == "NaN"

IsWs(c) == c \in {" ", "\n"}
IsDigit(c) == c \in Digits
IsSign(c) == c \in {"+", "-"}
IsDot(c) == c # "\n"

DigitVal(c) ==
  CASE c = "0" -> 0 [] c = "1" -> 1 [] c = "2" -> 2 [] c = "3" -> 3
    [] c = "4" -> 4 [] c = "5" -> 5 [] c = "6" -> 6 [] c = "7" -> 7
    [] c = "8" -> 8 [] c = "9" -> 9

Strings(n) == UNION {[1..k -> Alphabet] : k \in 0..n}

AllWs(s, lo, hi) == \A i \in lo..hi : IsWs(s[i])
AllDigit(s, lo, hi) == \A i \in lo..hi : IsDigit(s[i])
AllDot(s, lo, hi) == \A i \in lo..hi : IsDot(s[i])

\* String.prototype.trim
Trim(s) ==
  LET keep == {i \in 1..Len(s) : ~IsWs(s[i])}
  IN IF keep = {} THEN <<>>
     ELSE LET lo == CHOOSE i \in keep : \A j \in keep : i <= j
              hi == CHOOSE i \in keep : \A j \in keep : i >= j
          IN SubSeq(s, lo, hi)

\* String.prototype.split with a one-character separator
RECURSIVE Split(_, _)
Split(s, sep) ==
  LET hit == {i \in 1..Len(s) : s[i] = sep}
  IN IF hit = {} THEN <<s>>
     ELSE LET i == CHOOSE x \in hit : \A y \in hit : x <= y
          IN <<SubSeq(s, 1, i - 1)>> \o Split(SubSeq(s, i + 1, Len(s)), sep)

\* Array.prototype.join
RECURSIVE Join(_, _)
Join(parts, sep) ==
  IF Len(parts) = 0 THEN <<>>
  ELSE IF Len(parts) = 1 THEN parts[1]
  ELSE parts[1] \o <<sep>> \o Join(Tail(parts), sep)

StartsWith(s, c) == Len(s) >= 1 /\ s[1] = c

\* the decimal value of a run of digits
RECURSIVE DigitsValue(_)
DigitsValue(ds) ==
  IF Len(ds) = 0 THEN 0
  ELSE 10 * DigitsValue(SubSeq(ds, 1, Len(ds) - 1)) + DigitVal(ds[Len(ds)])

\* parseInt(string): leading white space skipped, an optional sign, then the
\* longest run of digits; NaN when there is none.
ParseInt(s) ==
  LET ws == {i \in 1..Len(s) : ~IsWs(s[i])}
      t == IF ws = {} THEN <<>>
           ELSE SubSeq(s, CHOOSE i \in ws : \A j \in ws : i <= j, Len(s))
      signed == Len(t) >= 1 /\ IsSign(t[1])
      body == IF signed THEN Tail(t) ELSE t
      stop == {i \in 1..Len(body) : ~IsDigit(body[i])}
      n == IF stop = {} THEN Len(body)
           ELSE (CHOOSE i \in stop : \A j \in stop : i <= j) - 1
      v == DigitsValue(SubSeq(body, 1, n))
  IN IF n = 0 THEN NaN
     ELSE IF signed /\ t[1] = "-" THEN 0 - v ELSE v

\* String(n) of an integer, as a template literal renders it
DecimalDigits == <<"0", "1", "2", "3", "4", "5", "6", "7", "8", "9">>

RECURSIVE DigitsOf(_)
DigitsOf(n) ==
  IF n < 10 THEN <<DecimalDigits[n + 1]>>
  ELSE DigitsOf(n \div 10) \o <<DecimalDigits[(n % 10) + 1]>>

NumberToString(n) == IF n < 0 THEN <<"-">> \o DigitsOf(0 - n) ELSE DigitsOf(n)

Abs(n) == IF n < 0 THEN 0 - n ELSE n

\* Number.prototype.toLocaleString() of a non-negative integer in the default
\* locale of the runtime (en-US): groups of three digits, a comma between them
RECURSIVE toLocaleString(_)
toLocaleString(n) ==
  IF n < 1000 THEN DigitsOf(n)
  ELSE toLocaleString(n \div 1000)
         \o <<",", DecimalDigits[((n % 1000) \div 100) + 1],
              DecimalDigits[((n % 100) \div 10) + 1],
              DecimalDigits[(n % 10) + 1]>>

\* ------------------------------------------------ utils: parseMessage
Undefined == <<"undefined">>

\* /^\s*(?:([+-]?)(\d+)\s+(.+)|(.+?)\s+([+-])(\d+))\s*$/, first alternative.
\* The text was trimmed, so the leading \s* matches the empty string.  A path
\* is one way the pattern can consume the text: s characters of sign, d
\* digits, w white space, l characters of label, the rest white space up to
\* the end of the input.
AmountFirstPaths(t) ==
  LET n == Len(t)
      Ss == {s \in 0..1 : s = 1 => (n >= 1 /\ IsSign(t[1]))}
      Ds(s) == {d \in 1..(n - s) : AllDigit(t, s + 1, s + d)}
      Ws(e) == {w \in 1..(n - e) : AllWs(t, e + 1, e + w)}
      Ls(e) == {l \in 1..(n - e) : /\ AllDot(t, e + 1, e + l)
                                   /\ AllWs(t, e + l + 1, n)}
  IN UNION {UNION {UNION {{[s |-> s, d |-> d, w |-> w, l |-> l] :
                            l \in Ls(s + d + w)} :
                          w \in Ws(s + d)} :
                   d \in Ds(s)} :
            s \in Ss}

\* The backtracking order of the first alternative: every quantifier is
\* greedy, so the longer match of the earlier quantifier is tried first.
AmountFirstPrefer(p, q) ==
  \/ p.s > q.s
  \/ p.s = q.s /\ p.d > q.d
  \/ p.s = q.s /\ p.d = q.d /\ p.w > q.w
  \/ p.s = q.s /\ p.d = q.d /\ p.w = q.w /\ p.l >= q.l

\* Second alternative: k characters of label (lazy), w white space, one sign,
\* d digits, the rest white space up to the end of the input.
LabelFirstPaths(t) ==
  LET n == Len(t)
      Ks == {k \in 1..n : AllDot(t, 1, k)}
      Ws(e) == {w \in 1..(n - e - 1) : /\ AllWs(t, e + 1, e + w)
                                       /\ IsSign(t[e + w + 1])}
      Ds(e) == {d \in 1..(n - e) : /\ AllDigit(t, e + 1, e + d)
                                   /\ AllWs(t, e + d + 1, n)}
  IN UNION {UNION {{[k |-> k, w |-> w, d |-> d] : d \in Ds(k + w + 1)} :
                   w \in Ws(k)} :
            k \in Ks}

\* (.+?) is lazy: the shorter label is tried first; \s+ and \d+ are greedy.
LabelFirstPrefer(p, q) ==
  \/ p.k < q.k
  \/ p.k = q.k /\ p.w > q.w
  \/ p.k = q.k /\ p.w = q.w /\ p.d >= q.d

\* PatternMatch with the alternatives of the pattern in the other order
PatternMatchLabelFirst(t) ==
  LET A == AmountFirstPaths(t)
      L == LabelFirstPaths(t)
  IN IF L # {} THEN
       LET p == CHOOSE x \in L : \A y \in L : LabelFirstPrefer(x, y)
       IN [g1 |-> Undefined, g2 |-> Undefined, g3 |-> Undefined,
           g4 |-> SubSeq(t, 1, p.k),
           g5 |-> SubSeq(t, p.k + p.w + 1, p.k + p.w + 1),
           g6 |-> SubSeq(t, p.k + p.w + 2, p.k + p.w + 1 + p.d)]
     ELSE IF A # {} THEN
       LET p == CHOOSE x \in A : \A y \in A : AmountFirstPrefer(x, y)
       IN [g1 |-> SubSeq(t, 1, p.s),
           g2 |-> SubSeq(t, p.s + 1, p.s + p.d),
           g3 |-> SubSeq(t, p.s + p.d + p.w + 1, p.s + p.d + p.w + p.l),
           g4 |-> Undefined, g5 |-> Undefined, g6 |-> Undefined]
     ELSE Null

\* text.match(pattern): the capture groups of the first successful path, the
\* first alternative before the second; a group of the alternative that did
\* not take part is undefined.
PatternMatch(t) ==
  LET A == AmountFirstPaths(t)
      L == LabelFirstPaths(t)
  IN IF A # {} THEN
       LET p == CHOOSE x \in A : \A y \in A : AmountFirstPrefer(x, y)
       IN [g1 |-> SubSeq(t, 1, p.s),
           g2 |-> SubSeq(t, p.s + 1, p.s + p.d),
           g3 |-> SubSeq(t, p.s + p.d + p.w + 1, p.s + p.d + p.w + p.l),
           g4 |-> Undefined, g5 |-> Undefined, g6 |-> Undefined]
     ELSE IF L # {} THEN
       LET p == CHOOSE x \in L : \A y \in L : LabelFirstPrefer(x, y)
       IN [g1 |-> Undefined, g2 |-> Undefined, g3 |-> Undefined,
           g4 |-> SubSeq(t, 1, p.k),
           g5 |-> SubSeq(t, p.k + p.w + 1, p.k + p.w + 1),
           g6 |-> SubSeq(t, p.k + p.w + 2, p.k + p.w + 1 + p.d)]
     ELSE Null

\* parseMessage that makes an amount of zero of a text without a number
parseMessageDefaultZero(text) ==
  LET t == Trim(text)
      match == PatternMatch(t)
  IN IF match = Null THEN [label |-> t, sign |-> "positive", amount |-> 0]
     ELSE IF match.g1 # Undefined \/ match.g2 # Undefined THEN
       LET signChar == IF match.g1 = <<>> THEN <<"+">> ELSE match.g1
       IN [label |-> Trim(match.g3),
           sign |-> IF signChar = <<"-">> THEN "negative" ELSE "positive",
           amount |-> ParseInt(match.g2)]
     ELSE
       [label |-> Trim(match.g4),
        sign |-> IF match.g5 = <<"+">> THEN "positive" ELSE "negative",
        amount |-> ParseInt(match.g6)]

parseMessage(text) ==
  LET t == Trim(text)
      match == PatternMatch(t)
  IN IF match = Null THEN Null
     ELSE IF match.g1 # Undefined \/ match.g2 # Undefined THEN
       LET signChar == IF match.g1 = <<>> THEN <<"+">> ELSE match.g1
       IN [label |-> Trim(match.g3),
           sign |-> IF signChar = <<"-">> THEN "negative" ELSE "positive",
           amount |-> ParseInt(match.g2)]
     ELSE
       [label |-> Trim(match.g4),
        sign |-> IF match.g5 = <<"+">> THEN "positive" ELSE "negative",
        amount |-> ParseInt(match.g6)]

\* ------------------------------------------- main.ts: parseFinancialEntries
currentDate == "today"

\* line.match(/(.+?)\s*([+-]\d+)/): the pattern is not anchored; a path starts
\* after p0 characters, takes k characters of description (lazy), w white
\* space (greedy), one sign and d digits (greedy).
EntryPaths(line) ==
  LET n == Len(line)
      Ks(b) == {k \in 1..(n - b) : AllDot(line, b + 1, b + k)}
      Ws(e) == {w \in 0..(n - e - 1) : /\ AllWs(line, e + 1, e + w)
                                       /\ IsSign(line[e + w + 1])}
      Ds(e) == {d \in 1..(n - e) : AllDigit(line, e + 1, e + d)}
  IN UNION {UNION {UNION {{[p0 |-> b, k |-> k, w |-> w, d |-> d] :
                            d \in Ds(b + k + w + 1)} :
                          w \in Ws(b + k)} :
                   k \in Ks(b)} :
            b \in 0..n}

\* EntryPrefer with a greedy description: the longer one first
EntryPreferGreedy(p, q) ==
  \/ p.p0 < q.p0
  \/ p.p0 = q.p0 /\ p.k > q.k
  \/ p.p0 = q.p0 /\ p.k = q.k /\ p.w > q.w
  \/ p.p0 = q.p0 /\ p.k = q.k /\ p.w = q.w /\ p.d >= q.d

\* The leftmost start is tried first, then the shorter description, then the
\* longer white space, then the longer number.
EntryPrefer(p, q) ==
  \/ p.p0 < q.p0
  \/ p.p0 = q.p0 /\ p.k < q.k
  \/ p.p0 = q.p0 /\ p.k = q.k /\ p.w > q.w
  \/ p.p0 = q.p0 /\ p.k = q.k /\ p.w = q.w /\ p.d >= q.d

LineMatch(line) ==
  LET E == EntryPaths(line)
  IN IF E = {} THEN Null
     ELSE LET p == CHOOSE x \in E : \A y \in E : EntryPrefer(x, y)
          IN [g1 |-> SubSeq(line, p.p0 + 1, p.p0 + p.k),
              g2 |-> SubSeq(line, p.p0 + p.k + p.w + 1,
                            p.p0 + p.k + p.w + 1 + p.d)]

RECURSIVE EntriesOfLines(_)
EntriesOfLines(lines) ==
  IF Len(lines) = 0 THEN <<>>
  ELSE LET match == LineMatch(lines[1])
       IN (IF match = Null THEN <<>>
           ELSE <<[description |-> Trim(match.g1),
                   amount |-> ParseInt(match.g2),
                   date |-> currentDate]>>)
          \o EntriesOfLines(Tail(lines))

NonBlank(line) == Trim(line) # <<>>

parseFinancialEntries(text) ==
  EntriesOfLines(SelectSeq(Split(text, "\n"), NonBlank))

\* TransactionParams that forgets the sign
TransactionParamsUnsigned(transaction, accountId) ==
  [label |-> transaction.label,
   amount |-> transaction.amount,
   accountId |-> accountId]

\* index.ts: the parameters the text handler hands to createTransaction
TransactionParams(transaction, accountId) ==
  [label |-> transaction.label,
   amount |-> transaction.amount
                * (IF transaction.sign = "negative" THEN -1 ELSE 1),
   accountId |-> accountId]

\* ------------------------------------------------------------------ inputs
\* Telegram delivers a message text without leading or trailing white space;
\* the lines inside a message keep theirs.
Messages ==
  { <<"a", " ", "-", "1">>,
    <<"1", " ", "a">>,
    <<"a">>,
    <<"a", " ", "+", "1", "\n", " ", "-", "1">> }

\* what follows the command word in a command message
CmdTails == { <<>>, <<" ", "a">>, <<" ", "a", " ", "b">> }

NoUser == 0
Users == 1..NumUsers
Senders == Users \cup {NoUser}

\* an account id is a fresh uuid: the next one of a pool; a callback can also
\* carry the id of no account (a keyboard that outlived its database)
NullId == <<"null">>
StaleId == <<"stale">>
IdChars == <<"1", "2", "3", "4", "5", "6", "7", "8", "9">>
IdPool == [i \in 1..(MaxAccounts + 1) |-> <<"#", IdChars[i]>>]

\* ------------------------------------------------------------------- state
VARIABLES
  bot,                      \* which program runs: "memory" or "persisted"
  receipts, userSessions,   \* main.ts
  Accounts, Transactions,   \* the tables of the database
  selectedAccountId, awaitingAccountCreation,   \* index.ts
  reply,                    \* the last message sent to the chat
  ledger,                   \* history: per account, the sum of the amounts
                            \* appended and not cleared or deleted since
  input, phase, message, entries, stored,  \* the parsers run alone
  suspended                 \* the text handlers of main.ts waiting at
                            \* "await ctx.reply(...)": sender -> the reply
                            \* awaited, its kind and the name it is about

vars == <<bot, receipts, userSessions, Accounts, Transactions,
          selectedAccountId, awaitingAccountCreation, reply, ledger,
          input, phase, message, entries, stored, suspended>>

memVars == <<receipts, userSessions>>
dbVars == <<Accounts, Transactions, selectedAccountId,
            awaitingAccountCreation>>
parseVars == <<input, phase, message, entries, stored>>
\* what a handler that runs to its end leaves alone: the parsers' variables
\* and the handlers in flight
idleVars == <<parseVars, suspended>>

Empty == [x \in {} |-> x]
\* A reply has a kind (which message of the code it is), the name the message
\* is about and its text.  The text of a message the code writes as a literal
\* is one element, the kind, and the name it quotes; a report has the text the
\* code renders, character by character.
NoReply == [kind |-> "none", about |-> Undefined, text |-> <<>>]
Reply(k, a) ==
  [kind |-> k, about |-> a,
   text |-> IF a = Undefined THEN <<k>> ELSE <<k>> \o a]
Say(k, a, t) == [kind |-> k, about |-> a, text |-> t]

InitState ==
  /\ receipts = Empty
  /\ userSessions = Empty
  /\ Accounts = <<>>
  /\ Transactions = <<>>
  /\ selectedAccountId = NullId
  /\ awaitingAccountCreation = FALSE
  /\ reply = NoReply
  /\ ledger = Empty

InitIdle ==
  /\ input = <<>>
  /\ phase = "idle"
  /\ message = Null
  /\ entries = <<>>
  /\ stored = Null
  /\ suspended = Empty

\* ------------------------------------------------------------- main.ts
getUserSession(sessions, userId) ==
  IF userId \in DOMAIN sessions THEN sessions
  ELSE sessions @@ (userId :> [currentReceipt |-> Undefined])

\* getReceipt that makes a new receipt of every name
getReceiptFresh(rs, receiptName) ==
  [n \in DOMAIN rs \cup {receiptName} |->
     IF n = receiptName THEN [name |-> receiptName, entries |-> <<>>]
     ELSE rs[n]]

getReceipt(rs, receiptName) ==
  IF receiptName \in DOMAIN rs THEN rs
  ELSE rs @@ (receiptName :> [name |-> receiptName, entries |-> <<>>])

listReceipts(rs) == DOMAIN rs

\* addEntriesToReceipt that replaces the entries of the receipt
addEntriesToReceiptOver(rs, receiptName, es) ==
  LET got == getReceipt(rs, receiptName)
  IN [got EXCEPT ![receiptName].entries = es]

\* addEntriesToReceipt that pushes the first entry only
addEntriesToReceiptFirst(rs, receiptName, es) ==
  LET got == getReceipt(rs, receiptName)
  IN [got EXCEPT ![receiptName].entries = @ \o SubSeq(es, 1, 1)]

addEntriesToReceipt(rs, receiptName, es) ==
  LET got == getReceipt(rs, receiptName)
  IN [got EXCEPT ![receiptName].entries = @ \o es]

RECURSIVE SumAmounts(_)
SumAmounts(es) ==
  IF Len(es) = 0 THEN 0 ELSE SumAmounts(SubSeq(es, 1, Len(es) - 1))
                             + es[Len(es)].amount

calculateReceiptTotal(rs, receiptName) ==
  IF receiptName \notin DOMAIN rs THEN 0
  ELSE SumAmounts(rs[receiptName].entries)

\* EntryLine that writes "+" before every amount
EntryLinePlus(entry) ==
  <<"-", " ">> \o entry.description \o <<" ", "+">>
    \o NumberToString(entry.amount)
    \o <<" ", "[", entry.date, "]", "\n">>

\* "- ${entry.description} ${entry.amount >= 0 ? "+" : ""}${entry.amount}
\* [${entry.date}]\n"; the date is one element
EntryLine(entry) ==
  <<"-", " ">> \o entry.description \o <<" ">>
    \o (IF entry.amount >= 0 THEN <<"+">> ELSE <<>>)
    \o NumberToString(entry.amount)
    \o <<" ", "[", entry.date, "]", "\n">>

\* EntryLines that lists the last entry first
RECURSIVE EntryLinesReversed(_)
EntryLinesReversed(es) ==
  IF Len(es) = 0 THEN <<>>
  ELSE EntryLinesReversed(Tail(es)) \o EntryLine(es[1])

RECURSIVE EntryLines(_)
EntryLines(es) ==
  IF Len(es) = 0 THEN <<>> ELSE EntryLine(es[1]) \o EntryLines(Tail(es))

ReceiptNotFound(receiptName) ==
  <<"R", "e", "c", "e", "i", "p", "t", " ", "\"">> \o receiptName
    \o <<"\"", " ", "n", "o", "t", " ", "f", "o", "u", "n", "d", ".">>

\* formatResponse that leaves the total line out
formatResponseNoTotal(rs, receiptName) ==
  IF receiptName \notin DOMAIN rs THEN ReceiptNotFound(receiptName)
  ELSE <<"*", "*", "R", "e", "c", "e", "i", "p", "t", ":", " ">>
         \o receiptName \o <<"*", "*", "\n", "\n">>
         \o <<"fence", "\n">>
         \o EntryLines(rs[receiptName].entries)
         \o <<"fence">>

\* the three backquotes of a code fence are one element
formatResponse(rs, receiptName) ==
  IF receiptName \notin DOMAIN rs THEN ReceiptNotFound(receiptName)
  ELSE
    LET total == calculateReceiptTotal(rs, receiptName)
    IN <<"*", "*", "R", "e", "c", "e", "i", "p", "t", ":", " ">>
         \o receiptName \o <<"*", "*", "\n", "\n">>
         \o <<"fence", "\n">>
         \o EntryLines(rs[receiptName].entries)
         \o <<"\n", "T", "o", "t", "a", "l", ":", " ">>
         \o (IF total >= 0 THEN <<"+">> ELSE <<>>)
         \o NumberToString(total) \o <<"\n">>
         \o <<"fence">>

\* "<clipboard> Current receipt: "${currentReceipt}"\nNo entries yet."; the
\* emoji is one element
NoEntriesYet(currentReceipt) ==
  <<"clipboard", " ", "C", "u", "r", "r", "e", "n", "t", " ",
    "r", "e", "c", "e", "i", "p", "t", ":", " ", "\"">>
    \o currentReceipt
    \o <<"\"", "\n", "N", "o", " ", "e", "n", "t", "r", "i", "e", "s", " ",
         "y", "e", "t", ".">>

\* ctx.message.text.split(" ").slice(1) of the command message
CommandArgs(cmd, tail) == Tail(Split(<<"/">> \o cmd \o tail, " "))

\* !currentReceipt: undefined and the empty string are both falsy
Falsy(str) == str = Undefined \/ str = <<>>

\* the history of the amounts an account holds
LedgerAdd(l, key, es) ==
  IF key \in DOMAIN l THEN [l EXCEPT ![key] = @ + SumAmounts(es)]
  ELSE l @@ (key :> SumAmounts(es))
LedgerCreate(l, key) == IF key \in DOMAIN l THEN l ELSE l @@ (key :> 0)
LedgerDrop(l, key) == [k \in DOMAIN l \ {key} |-> l[k]]

CmdNew(u, tail) ==
  LET args == CommandArgs(<<"n", "e", "w">>, tail)
      receiptName == Join(args, "_")
  IN /\ bot = "memory"
     /\ IF Len(args) = 0 THEN
          /\ reply' = Reply("usage", Undefined)
          /\ UNCHANGED <<receipts, userSessions, ledger>>
        ELSE IF u = NoUser THEN
          /\ reply' = NoReply
          /\ UNCHANGED <<receipts, userSessions, ledger>>
        ELSE
          /\ receipts' = getReceipt(receipts, receiptName)
          /\ userSessions' =
               [getUserSession(userSessions, u) EXCEPT
                  ![u].currentReceipt = receiptName]
          /\ ledger' = LedgerCreate(ledger, receiptName)
          /\ reply' = Reply("created", receiptName)
     /\ UNCHANGED <<bot, dbVars, idleVars>>

CmdSwitch(u, tail) ==
  LET args == CommandArgs(<<"s", "w", "i", "t", "c", "h">>, tail)
      receiptName == Join(args, "_")
  IN /\ bot = "memory"
     /\ IF Len(args) = 0 THEN
          /\ reply' = Reply(IF listReceipts(receipts) = {}
                               THEN "no_receipts" ELSE "available",
                            Undefined)
          /\ UNCHANGED userSessions
        ELSE IF u = NoUser THEN
          /\ reply' = NoReply
          /\ UNCHANGED userSessions
        ELSE IF receiptName \notin DOMAIN receipts THEN
          /\ reply' = Reply("not_found", receiptName)
          /\ UNCHANGED userSessions
        ELSE
          /\ userSessions' =
               [getUserSession(userSessions, u) EXCEPT
                  ![u].currentReceipt = receiptName]
          /\ reply' = Reply("switched", receiptName)
     /\ UNCHANGED <<bot, receipts, ledger, dbVars, idleVars>>

CmdList(u) ==
  /\ bot = "memory"
  /\ IF listReceipts(receipts) = {} THEN
       /\ reply' = Reply("no_receipts", Undefined)
       /\ UNCHANGED userSessions
     ELSE
       /\ userSessions' = IF u = NoUser THEN userSessions
                          ELSE getUserSession(userSessions, u)
       /\ reply' = Reply("list", Undefined)
  /\ UNCHANGED <<bot, receipts, ledger, dbVars, idleVars>>

\* clearIfCurrent that leaves the session as it is
clearIfCurrentKeeps(sessions, u, receiptName) ==
  getUserSession(sessions, u)

\* "Clear from user session if it was current"
clearIfCurrent(sessions, u, receiptName) ==
  LET session == getUserSession(sessions, u)
  IN IF session[u].currentReceipt = receiptName
     THEN [session EXCEPT ![u].currentReceipt = Undefined]
     ELSE session

CmdDelete(u, tail) ==
  LET args == CommandArgs(<<"d", "e", "l", "e", "t", "e">>, tail)
      receiptName == Join(args, "_")
  IN /\ bot = "memory"
     /\ IF Len(args) = 0 THEN
          /\ reply' = Reply("usage", Undefined)
          /\ UNCHANGED <<receipts, userSessions, ledger>>
        ELSE IF receiptName \notin DOMAIN receipts THEN
          /\ reply' = Reply("not_found", receiptName)
          /\ UNCHANGED <<receipts, userSessions, ledger>>
        ELSE
          /\ receipts' = [n \in DOMAIN receipts \ {receiptName} |-> receipts[n]]
          /\ ledger' = LedgerDrop(ledger, receiptName)
          /\ userSessions' =
               IF u = NoUser THEN userSessions
               ELSE clearIfCurrent(userSessions, u, receiptName)
          /\ reply' = Reply("deleted", receiptName)
     /\ UNCHANGED <<bot, dbVars, idleVars>>

CmdCurrent(u) ==
  LET session == getUserSession(userSessions, u)
      currentReceipt == session[u].currentReceipt
  IN /\ bot = "memory"
     /\ IF u = NoUser THEN
          /\ reply' = NoReply
          /\ UNCHANGED userSessions
        ELSE
          /\ userSessions' = session
          /\ reply' =
               IF Falsy(currentReceipt) THEN Reply("no_current", Undefined)
               ELSE IF \/ currentReceipt \notin DOMAIN receipts
                       \/ Len(receipts[currentReceipt].entries) = 0
                    THEN Say("no_entries", currentReceipt,
                             NoEntriesYet(currentReceipt))
                    ELSE Say("current_report", currentReceipt,
                             formatResponse(receipts, currentReceipt))
     /\ UNCHANGED <<bot, receipts, ledger, dbVars, idleVars>>

\* receipt.entries = []
clearEntries(rs, receiptName) == [rs EXCEPT ![receiptName].entries = <<>>]

CmdClear(u) ==
  LET session == getUserSession(userSessions, u)
      currentReceipt == session[u].currentReceipt
  IN /\ bot = "memory"
     /\ IF u = NoUser THEN
          /\ reply' = NoReply
          /\ UNCHANGED <<receipts, userSessions, ledger>>
        ELSE
          /\ userSessions' = session
          /\ IF Falsy(currentReceipt) THEN
               /\ reply' = Reply("no_current", Undefined)
               /\ UNCHANGED <<receipts, ledger>>
             ELSE IF currentReceipt \in DOMAIN receipts THEN
               /\ receipts' = clearEntries(receipts, currentReceipt)
               /\ ledger' = [ledger EXCEPT ![currentReceipt] = 0]
               /\ reply' = Reply("cleared", currentReceipt)
             ELSE
               /\ reply' = NoReply
               /\ UNCHANGED <<receipts, ledger>>
     /\ UNCHANGED <<bot, dbVars, idleVars>>

\* bot.on("text") from its first line to the reply it sends: the handler reads
\* and writes the maps and renders before its one "await ctx.reply(...)", and
\* returns after it.  The handler is registered before bot.start, so it also
\* receives "/start" and every other text that is no registered command.
TextHandler(u, text) ==
  LET session == getUserSession(userSessions, u)
      currentReceipt == session[u].currentReceipt
      parsedEntries == parseFinancialEntries(text)
  IN IF u = NoUser \/ StartsWith(text, "/") THEN
       /\ reply' = NoReply
       /\ UNCHANGED <<receipts, userSessions, ledger>>
     ELSE
       /\ userSessions' = session
       /\ IF Falsy(currentReceipt) THEN
            /\ reply' = Reply("no_receipt_selected", Undefined)
            /\ UNCHANGED <<receipts, ledger>>
          ELSE IF Len(parsedEntries) = 0 THEN
            /\ reply' = Reply("format_help", Undefined)
            /\ UNCHANGED <<receipts, ledger>>
          ELSE
            /\ Len(getReceipt(receipts, currentReceipt)[currentReceipt].entries)
                 + Len(parsedEntries) <= MaxEntries
            /\ receipts' =
                 addEntriesToReceipt(receipts, currentReceipt, parsedEntries)
            /\ ledger' = LedgerAdd(ledger, currentReceipt, parsedEntries)
            /\ reply' = Say("report", currentReceipt,
                            formatResponse(receipts', currentReceipt))

\* the handler run to its end: the reply is sent and the handler returns
OnText(u, text) ==
  /\ bot = "memory"
  /\ TextHandler(u, text)
  /\ UNCHANGED <<bot, dbVars, idleVars>>

\* the handler run to its "await ctx.reply(...)": it waits for the reply to
\* be sent while the handlers of other senders run
TextBegin(u, text) ==
  /\ bot = "memory"
  /\ u \notin DOMAIN suspended
  /\ TextHandler(u, text)
  /\ suspended' =
       IF reply'.kind = "none" THEN suspended
       ELSE suspended @@ (u :> [kind |-> reply'.kind, about |-> reply'.about])
  /\ UNCHANGED <<bot, dbVars, parseVars>>

\* the reply was sent: the handler returns
TextEnd(u) ==
  /\ bot = "memory"
  /\ u \in DOMAIN suspended
  /\ suspended' = [v \in DOMAIN suspended \ {u} |-> suspended[v]]
  /\ UNCHANGED <<bot, memVars, dbVars, reply, ledger, parseVars>>

\* the reply sent inside the try block was rejected: the catch sends "Sorry,
\* there was an error processing your request." and waits for that
TextReplyFails(u) ==
  /\ bot = "memory"
  /\ u \in DOMAIN suspended
  /\ suspended[u].kind \in {"report", "format_help"}
  /\ reply' = Reply("error", Undefined)
  /\ suspended' = [suspended EXCEPT
                     ![u] = [kind |-> "error", about |-> Undefined]]
  /\ UNCHANGED <<bot, memVars, dbVars, ledger, parseVars>>

\* ------------------------------------------------------------- the store
\* the Accounts table declares its names unique
insertAccountFails(tbl, name) == \E i \in 1..Len(tbl) : tbl[i].name = name

createAccountThrows(tbl, name) ==
  \/ name = <<>>
  \/ Len(Trim(name)) = 0
  \/ insertAccountFails(tbl, Trim(name))

\* createAccount that inserts nothing
createAccountNone(tbl, name) == tbl

createAccount(tbl, name) ==
  Append(tbl, [id |-> IdPool[Len(tbl) + 1], name |-> Trim(name)])

selectAccountById(tbl, accountId) ==
  {tbl[i] : i \in {j \in 1..Len(tbl) : tbl[j].id = accountId}}

createTransactionThrows(tbl, params) ==
  \/ params.label = <<>>
  \/ Len(Trim(params.label)) = 0
  \/ params.amount \notin Int
  \/ params.accountId = <<>>
  \/ Len(Trim(params.accountId)) = 0
  \/ selectAccountById(tbl, params.accountId) = {}

NewTransaction(rows, params) ==
  [id |-> Len(rows) + 1, label |-> Trim(params.label),
   amount |-> params.amount, account |-> params.accountId]

createTransaction(rows, params) == Append(rows, NewTransaction(rows, params))

\* SELECT id, name FROM Accounts ORDER BY name; its callers ignore the order
getAllAccounts(tbl) == {tbl[i] : i \in 1..Len(tbl)}

\* SELECT ... WHERE account = ? ORDER BY created_at
getTransactionInAccount(rows, accountId) ==
  LET keep == {i \in 1..Len(rows) : rows[i].account = accountId}
      Pick[n \in 0..Len(rows)] ==
        IF n = 0 THEN <<>>
        ELSE IF n \in keep THEN Append(Pick[n - 1], rows[n]) ELSE Pick[n - 1]
  IN Pick[Len(rows)]

getAccountBalance(rows, accountId) ==
  SumAmounts(getTransactionInAccount(rows, accountId))

\* utils: ${emoji} ${sign}${formattedAmount}  "${transaction.label}"; an
\* emoji is one element
TransactionLine(transaction) ==
  <<IF transaction.amount >= 0 THEN "money-bag" ELSE "money-wings", " ">>
    \o <<IF transaction.amount >= 0 THEN "+" ELSE "-">>
    \o toLocaleString(Abs(transaction.amount))
    \o <<" ", " ", "\"">> \o transaction.label \o <<"\"">>

RECURSIVE TransactionLines(_)
TransactionLines(rows) ==
  IF Len(rows) = 0 THEN <<>>
  ELSE <<TransactionLine(rows[1])>> \o TransactionLines(Tail(rows))

parseTransactions(transactions) ==
  LET total == SumAmounts(transactions)
      text == Join(TransactionLines(transactions), "\n")
  IN text \o <<"\n", "\n">>
       \o <<IF total >= 0 THEN "chart-up" ELSE "chart-down", " ",
            "T", "o", "t", "a", "l", ":", " ">>
       \o <<IF total >= 0 THEN "+" ELSE "-">>
       \o toLocaleString(Abs(total))

\* ------------------------------------------------------------ index.ts
\* bot.use lets the handlers below run for white-listed senders only: Users
SelectAccount(u, accountId) ==
  /\ bot = "persisted"
  /\ selectedAccountId' = accountId
  /\ reply' = IF \E account \in getAllAccounts(Accounts) : account.id = accountId
              THEN Reply("selected", accountId)
              ELSE Reply("not_found", accountId)
  /\ UNCHANGED <<bot, memVars, Accounts, Transactions,
                 awaitingAccountCreation, ledger, idleVars>>

CreateAccountPrompt(u) ==
  /\ bot = "persisted"
  /\ reply' = Reply("name_prompt", Undefined)
  /\ awaitingAccountCreation' = TRUE
  /\ UNCHANGED <<bot, memVars, Accounts, Transactions, selectedAccountId,
                 ledger, idleVars>>

OnTextMessage(u, text) ==
  LET transaction == parseMessage(text)
      params == TransactionParams(transaction, selectedAccountId)
  IN /\ bot = "persisted"
        /\ IF awaitingAccountCreation THEN
          /\ IF createAccountThrows(Accounts, text) THEN
               /\ reply' = Reply("create_failed", Undefined)
               /\ UNCHANGED <<Accounts, ledger>>
             ELSE
               /\ Len(Accounts) < MaxAccounts
               /\ Accounts' = createAccount(Accounts, text)
               /\ ledger' = LedgerCreate(ledger, IdPool[Len(Accounts) + 1])
               /\ reply' = Reply("account_created", Undefined)
          /\ awaitingAccountCreation' = FALSE
          /\ UNCHANGED <<Transactions, selectedAccountId>>
        ELSE IF selectedAccountId = NullId \/ selectedAccountId = <<>> THEN
          /\ reply' = Reply("no_account_selected", Undefined)
          /\ UNCHANGED <<dbVars, ledger>>
        ELSE IF transaction # Null THEN
          IF createTransactionThrows(Accounts, params) THEN
            \* the handler has no catch: nothing is stored, nothing is sent
            /\ reply' = Reply("uncaught_error", selectedAccountId)
            /\ UNCHANGED <<dbVars, ledger>>
          ELSE
            /\ Len(Transactions) < MaxEntries
            /\ Transactions' = createTransaction(Transactions, params)
            /\ ledger' = LedgerAdd(ledger, selectedAccountId,
                                   <<[amount |-> params.amount]>>)
            /\ reply' =
                 Say("report", selectedAccountId,
                     parseTransactions(
                       getTransactionInAccount(Transactions',
                                               selectedAccountId)))
            /\ UNCHANGED <<Accounts, selectedAccountId,
                           awaitingAccountCreation>>
        ELSE
          /\ reply' = Reply("format_help", Undefined)
          /\ UNCHANGED <<dbVars, ledger>>
     /\ UNCHANGED <<bot, memVars, idleVars>>

\* ------------------------------------------------------- the two programs
Init ==
  /\ bot \in {"memory", "persisted"}
  /\ InitState
  /\ InitIdle

Next ==
  \/ \E u \in Senders, tail \in CmdTails : CmdNew(u, tail)
  \/ \E u \in Senders, tail \in CmdTails : CmdSwitch(u, tail)
  \/ \E u \in Senders : CmdList(u)
  \/ \E u \in Senders, tail \in CmdTails : CmdDelete(u, tail)
  \/ \E u \in Senders : CmdCurrent(u)
  \/ \E u \in Senders : CmdClear(u)
  \/ \E u \in Senders, text \in Messages : OnText(u, text)
  \/ \E u \in Users, account \in getAllAccounts(Accounts) :
       SelectAccount(u, account.id)
  \/ \E u \in Users : SelectAccount(u, StaleId)
  \/ \E u \in Users : CreateAccountPrompt(u)
  \/ \E u \in Users, text \in Messages : OnTextMessage(u, text)

Spec == Init /\ [][Next]_vars

\* ------------------------------------------------------ the parsers, alone
InitParse ==
  /\ bot = "none"
  /\ InitState
  /\ input \in Strings(MaxLen)
  /\ phase = "input"
  /\ message = Null
  /\ entries = <<>>
  /\ stored = Null
  /\ suspended = Empty

RunParsers ==
  /\ phase = "input"
  /\ phase' = "parsed"
  /\ message' = parseMessage(input)
  /\ entries' = parseFinancialEntries(input)
  /\ UNCHANGED <<input, stored, bot, memVars, dbVars, reply, ledger,
                 suspended>>

\* the row the text handler of index.ts stores for the parsed message
StoreParsed ==
  /\ phase = "parsed"
  /\ message # Null
  /\ phase' = "stored"
  /\ stored' = NewTransaction(<<>>, TransactionParams(message, IdPool[1]))
  /\ UNCHANGED <<input, message, entries, bot, memVars, dbVars, reply,
                 ledger, suspended>>

NextParse == RunParsers \/ StoreParsed

SpecParse == InitParse /\ [][NextParse]_vars

\* ---------------------------------------------------- the renderers, alone
\* A store as text messages leave it: one account, its entries drawn from
\* labels and amounts the parsers return ("a -1000", "a - +0", ...).
RenderName == <<"a">>
RenderNames == {RenderName, <<"b">>}
RenderLabels == { <<"a">>, <<"a", " ", "-">> }
RenderAmounts == {-1000, -1, 0, 1, 1000}
EntryLists ==
  UNION {[1..k -> [description : RenderLabels, amount : RenderAmounts,
                   date : {currentDate}]] : k \in 0..MaxEntries}

RowsOf(es) ==
  [i \in 1..Len(es) |->
     [id |-> i, label |-> es[i].description, amount |-> es[i].amount,
      account |-> IdPool[1]]]

InitRender ==
  /\ bot \in {"memory", "persisted"}
  /\ \E es \in EntryLists :
       IF bot = "memory" THEN
         /\ receipts = (RenderName :> [name |-> RenderName, entries |-> es])
         /\ userSessions = (1 :> [currentReceipt |-> RenderName])
         /\ ledger = (RenderName :> SumAmounts(es))
         /\ Accounts = <<>>
         /\ Transactions = <<>>
         /\ selectedAccountId = NullId
       ELSE
         /\ receipts = Empty
         /\ userSessions = Empty
         /\ Accounts = <<[id |-> IdPool[1], name |-> RenderName]>>
         /\ Transactions = RowsOf(es)
         /\ ledger = (IdPool[1] :> SumAmounts(es))
         /\ selectedAccountId = IdPool[1]
  /\ awaitingAccountCreation = FALSE
  /\ reply = NoReply
  /\ InitIdle

\* formatResponse applied to a receipt of the store
FormatResponse(receiptName) ==
  /\ bot = "memory"
  /\ reply' = Say("formatResponse", receiptName,
                  formatResponse(receipts, receiptName))
  /\ UNCHANGED <<bot, memVars, dbVars, ledger, idleVars>>

\* parseTransactions applied to the transactions of an account of the store
ParseTransactions(accountId) ==
  /\ bot = "persisted"
  /\ reply' = Say("parseTransactions", accountId,
                  parseTransactions(
                    getTransactionInAccount(Transactions, accountId)))
  /\ UNCHANGED <<bot, memVars, dbVars, ledger, idleVars>>

NextRender ==
  \/ \E u \in Users : CmdCurrent(u)
  \/ \E receiptName \in RenderNames : FormatResponse(receiptName)
  \/ \E account \in getAllAccounts(Accounts) : ParseTransactions(account.id)

SpecRender == InitRender /\ [][NextRender]_vars

\* ------------------------------- the text handlers of main.ts, interleaved
InitInterleave ==
  /\ bot = "memory"
  /\ receipts = (RenderName :> [name |-> RenderName, entries |-> <<>>])
  /\ userSessions = [u \in Users |-> [currentReceipt |-> RenderName]]
  /\ ledger = (RenderName :> 0)
  /\ Accounts = <<>>
  /\ Transactions = <<>>
  /\ selectedAccountId = NullId
  /\ awaitingAccountCreation = FALSE
  /\ reply = NoReply
  /\ InitIdle

NextInterleave ==
  \/ \E u \in Users, text \in Messages : TextBegin(u, text)
  \/ \E u \in Users : TextEnd(u)
  \/ \E u \in Users : TextReplyFails(u)

SpecInterleave == InitInterleave /\ [][NextInterleave]_vars

\* ------------------------------------------------ the grammars of the spec
\* "<sign><digits> <label>": the digits end at white space and a label is left
DigitRun(t, from) ==
  LET stop == {i \in from..Len(t) : ~IsDigit(t[i])}
  IN IF stop = {} THEN Len(t) - from + 1
     ELSE (CHOOSE i \in stop : \A j \in stop : i <= j) - from

TrailingDigits(t) ==
  LET stop == {i \in 1..Len(t) : ~IsDigit(t[i])}
  IN IF stop = {} THEN Len(t)
     ELSE Len(t) - (CHOOSE i \in stop : \A j \in stop : i >= j)

SignLen(t) == IF Len(t) >= 1 /\ IsSign(t[1]) THEN 1 ELSE 0

AmountFirstShape(t) ==
  LET s == SignLen(t)
      d == DigitRun(t, s + 1)
  IN /\ d >= 1
     /\ s + d < Len(t)
     /\ IsWs(t[s + d + 1])
     /\ Trim(SubSeq(t, s + d + 1, Len(t))) # <<>>
     /\ \A i \in 1..Len(t) : IsDot(t[i])

AmountFirstReading(t) ==
  LET s == SignLen(t)
      d == DigitRun(t, s + 1)
  IN [label |-> Trim(SubSeq(t, s + d + 1, Len(t))),
      sign |-> IF s = 1 /\ t[1] = "-" THEN "negative" ELSE "positive",
      amount |-> DigitsValue(SubSeq(t, s + 1, s + d))]

\* "<label> <sign><digits>": the line ends in a signed number, white space
\* before it, a label before that
LabelFirstShape(t) ==
  LET n == Len(t)
      d == TrailingDigits(t)
  IN /\ d >= 1
     /\ n - d >= 3
     /\ IsSign(t[n - d])
     /\ IsWs(t[n - d - 1])
     /\ Trim(SubSeq(t, 1, n - d - 1)) # <<>>
     /\ \A i \in 1..n : IsDot(t[i])

LabelFirstReading(t) ==
  LET n == Len(t)
      d == TrailingDigits(t)
  IN [label |-> Trim(SubSeq(t, 1, n - d - 1)),
      sign |-> IF t[n - d] = "-" THEN "negative" ELSE "positive",
      amount |-> DigitsValue(SubSeq(t, n - d + 1, n))]

Signed(reading) ==
  IF reading.sign = "negative" THEN 0 - reading.amount ELSE reading.amount

Trimmed(t) == t = Trim(t)

\* C2: a well-formed amount-first line "<sign><digits> <label>" is parsed to
\* its digits, its sign (+ when there is none) and its label trimmed, and the
\* row the text handler stores for it carries sign*digits: the sign is applied
\* once.
C2_AmountFirstParsed ==
  (phase # "input" /\ Trimmed(input) /\ AmountFirstShape(input)) =>
    /\ message = AmountFirstReading(input)
    /\ phase = "stored" =>
         /\ stored.amount = Signed(AmountFirstReading(input))
         /\ stored.label = AmountFirstReading(input).label

C2_Witness ==
  /\ phase = "stored"
  /\ Trimmed(input)
  /\ AmountFirstShape(input)
  /\ input[1] = "-"
  /\ stored.amount < 0

\* C4: a line that matches the amount-first pattern gets the amount-first
\* reading (the leading number is the amount, the rest of the line the
\* label), also when it ends in a signed number and has a label-first reading
\* too.
C4_AmountFirstPriority ==
  (phase # "input" /\ AmountFirstShape(Trim(input))) =>
    message = AmountFirstReading(Trim(input))

C4_Witness ==
  /\ phase = "parsed"
  /\ AmountFirstShape(Trim(input))
  /\ LabelFirstShape(Trim(input))
  /\ LabelFirstReading(Trim(input)) # AmountFirstReading(Trim(input))
  /\ message = AmountFirstReading(Trim(input))

\* the entry parseFinancialEntries makes of a reading
EntryOf(reading) ==
  [description |-> reading.label, amount |-> Signed(reading),
   date |-> currentDate]

\* the first sign after the first character that a digit follows
InnerSigns(t) ==
  {i \in 2..(Len(t) - 1) : IsSign(t[i]) /\ IsDigit(t[i + 1])}

FirstSigned(t) == CHOOSE i \in InnerSigns(t) : \A j \in InnerSigns(t) : i <= j

FirstNumberEntry(t) ==
  LET i == FirstSigned(t)
      v == DigitsValue(SubSeq(t, i + 1, i + DigitRun(t, i + 1)))
  IN [description |-> Trim(SubSeq(t, 1, i - 1)),
      amount |-> IF t[i] = "-" THEN 0 - v ELSE v,
      date |-> currentDate]

NumberText(x, amount) ==
  /\ Len(x) > SignLen(x)
  /\ AllDigit(x, SignLen(x) + 1, Len(x))
  /\ ParseInt(x) = amount

\* the label and the number are all there is in the line, in either order
WholeLine(t, label, amount) ==
  \E k \in 0..Len(t) :
    \/ /\ Trim(SubSeq(t, 1, k)) = label
       /\ NumberText(Trim(SubSeq(t, k + 1, Len(t))), amount)
    \/ /\ NumberText(Trim(SubSeq(t, 1, k)), amount)
       /\ Trim(SubSeq(t, k + 1, Len(t))) = label

\* C6: neither parser parses a part of a line: the label and the signed
\* number of a returned transaction are the whole line, nothing before,
\* between or after them is dropped.
C6_NoPartialParse ==
  phase # "input" =>
    /\ message # Null => WholeLine(input, message.label, Signed(message))
    /\ \A i \in 1..Len(entries) :
         WholeLine(input, entries[i].description, entries[i].amount)

\* what holds of parseMessage alone
C6_MessageWhole ==
  (phase # "input" /\ message # Null) =>
    WholeLine(input, message.label, Signed(message))

\* ------------------------------------------------------------ the two bots
botVars == <<receipts, userSessions, Accounts, Transactions,
             selectedAccountId, awaitingAccountCreation>>

CurrentOf(sessions, u) ==
  IF u \in DOMAIN sessions THEN sessions[u].currentReceipt ELSE Undefined

\* C1: the balance of every account is the sum of the amounts appended to it
\* and not cleared or deleted since; zero for an account without entries.
C1_BalanceIsLedger ==
  /\ bot = "memory" =>
       /\ DOMAIN ledger = DOMAIN receipts
       /\ \A n \in DOMAIN receipts :
            calculateReceiptTotal(receipts, n) = ledger[n]
  /\ bot = "persisted" =>
       \A account \in getAllAccounts(Accounts) :
         getAccountBalance(Transactions, account.id) = ledger[account.id]

C1_Witness ==
  /\ bot = "memory"
  /\ reply.kind = "report"
  /\ Len(receipts[reply.about].entries) = 2
  /\ calculateReceiptTotal(receipts, reply.about) = 0 - 2

\* a text of one line that has neither shape
NeitherGrammar(text) ==
  /\ \A i \in 1..Len(text) : IsDot(text[i])
  /\ ~AmountFirstShape(Trim(text))
  /\ ~LabelFirstShape(Trim(text))

\* C5, as claimed: a text message that matches neither grammar gets the
\* format help for an answer and changes nothing.
C5_AsClaimed ==
  [][\A u \in Users, text \in Messages :
       (NeitherGrammar(text) /\ (OnText(u, text) \/ OnTextMessage(u, text)))
         => (reply'.kind = "format_help" /\ UNCHANGED botVars)]_vars

\* C5, amended: a text message that reaches the parser and that the parser
\* rejects gets the format help for an answer and changes nothing.  It
\* reaches parseMessage when no account name is awaited and an account is
\* selected, and parseMessage rejects what matches neither grammar; it reaches
\* parseFinancialEntries when the sender has a current receipt and the text
\* does not start with "/".
C5_RejectedText ==
  [][\A u \in Users, text \in Messages :
       /\ ( /\ OnTextMessage(u, text)
            /\ ~awaitingAccountCreation
            /\ selectedAccountId # NullId
            /\ NeitherGrammar(text) )
          => (reply'.kind = "format_help" /\ UNCHANGED botVars)
       /\ ( /\ OnText(u, text)
            /\ ~Falsy(CurrentOf(userSessions, u))
            /\ ~StartsWith(text, "/")
            /\ parseFinancialEntries(text) = <<>> )
          => (reply'.kind = "format_help" /\ UNCHANGED botVars)]_vars

C5_Witness ==
  /\ bot = "persisted"
  /\ reply.kind = "format_help"
  /\ selectAccountById(Accounts, selectedAccountId) # {}
  /\ ~awaitingAccountCreation

\* what the text handler consults when a message of user u arrives
Handling(u) ==
  IF bot = "memory" THEN <<CurrentOf(userSessions, u)>>
  ELSE <<selectedAccountId, awaitingAccountCreation>>

\* C7: every user has an active account of their own: no account a user
\* creates or selects, and no account-name prompt a user opens, changes how
\* the message of another user is handled.
C7_OwnActiveAccount ==
  [][\A u \in Users : \A v \in Users \ {u} :
       ( \/ \E tail \in CmdTails : CmdNew(v, tail) \/ CmdSwitch(v, tail)
         \/ \E id \in {StaleId} \cup {IdPool[i] : i \in DOMAIN IdPool} :
              SelectAccount(v, id)
         \/ CreateAccountPrompt(v) )
       => Handling(u)' = Handling(u)]_vars

\* C8: a /delete that succeeds leaves the sender without a current receipt
\* when the deleted receipt was the sender's current one, and with the same
\* current receipt otherwise.
C8_DeleteClearsCurrent ==
  [][\A u \in Users, tail \in CmdTails :
       (CmdDelete(u, tail) /\ reply'.kind = "deleted") =>
         CurrentOf(userSessions', u) =
           IF CurrentOf(userSessions, u) = reply'.about THEN Undefined
           ELSE CurrentOf(userSessions, u)]_vars

C8_Witness ==
  /\ reply.kind = "deleted"
  /\ \E u \in DOMAIN userSessions, v \in DOMAIN userSessions :
       /\ userSessions[u].currentReceipt = Undefined
       /\ reply.about \notin DOMAIN receipts
       /\ userSessions[v].currentReceipt \in DOMAIN receipts

\* C9: an account that does not exist is answered with "not found" and
\* nothing changes: the selection stays, the store stays.
C9_NotFoundNoChange ==
  [][reply'.kind = "not_found" => UNCHANGED botVars]_vars

\* C10: no account has an empty or blank name and no stored entry an empty
\* label.
C10_NoEmptyNames ==
  /\ \A n \in DOMAIN receipts :
       /\ Trim(n) # <<>>
       /\ \A i \in 1..Len(receipts[n].entries) :
            receipts[n].entries[i].description # <<>>
  /\ \A i \in 1..Len(Accounts) : Trim(Accounts[i].name) # <<>>
  /\ \A i \in 1..Len(Transactions) : Transactions[i].label # <<>>

\* the store refuses the transaction of a text message that reached it
StoreFails(text) ==
  /\ ~awaitingAccountCreation
  /\ selectedAccountId # NullId
  /\ parseMessage(text) # Null
  /\ createTransactionThrows(Accounts,
       TransactionParams(parseMessage(text), selectedAccountId))

\* C11: when the store fails while a text message is handled, the user is
\* sent a generic failure reply, and the selection, the accounts and their
\* entries are what they were.
C11_FailureReported ==
  [][\A u \in Users, text \in Messages :
       (OnTextMessage(u, text) /\ StoreFails(text)) =>
         (reply'.kind = "generic_failure" /\ UNCHANGED botVars)]_vars

\* ------------------------------------------------------------- the reports
Occurs(pat, t) ==
  \E i \in 0..(Len(t) - Len(pat)) : SubSeq(t, i + 1, i + Len(pat)) = pat

TotalMark == <<"T", "o", "t", "a", "l", ":", " ">>

\* the lines of a report that list an entry: "- ..." in the in-memory bot,
\* the emoji of the amount first in the persisted one
ListsEntry(line) ==
  \/ Len(line) >= 2 /\ line[1] = "-" /\ line[2] = " "
  \/ Len(line) >= 1 /\ line[1] \in {"money-bag", "money-wings"}

ListingLines(text) == SelectSeq(Split(text, "\n"), ListsEntry)

HasTotal(line) == Occurs(TotalMark, line)

TotalLines(text) == SelectSeq(Split(text, "\n"), HasTotal)

\* the replies that render an account, and the entries the store holds for it
Rendering ==
  reply.kind \in {"no_entries", "current_report", "report",
                  "formatResponse", "parseTransactions"}

InStore(about) ==
  IF bot = "memory" THEN about \in DOMAIN receipts
  ELSE selectAccountById(Accounts, about) # {}

StoredEntries(about) ==
  IF bot = "memory" THEN receipts[about].entries
  ELSE getTransactionInAccount(Transactions, about)

C13_NotFoundReported ==
  [][\A u \in Users :
       ( /\ CmdCurrent(u)
         /\ ~Falsy(CurrentOf(userSessions, u))
         /\ CurrentOf(userSessions, u) \notin DOMAIN receipts )
       => /\ reply'.text = ReceiptNotFound(CurrentOf(userSessions, u))
          /\ reply'.kind # "no_entries"]_vars

\* the text of the amount in a line of the listing: before " [date]" and after
\* the last blank in the in-memory bot, between the emoji and the next blank
\* in the persisted one
LastBlankBefore(line, hi) ==
  CHOOSE i \in 1..hi : line[i] = " " /\ \A j \in (i + 1)..hi : line[j] # " "

FirstBlankFrom(line, lo) ==
  CHOOSE i \in lo..Len(line) : line[i] = " " /\ \A j \in lo..(i - 1) : line[j] # " "

AmountText(line) ==
  IF line[1] = "-"
  THEN SubSeq(line, LastBlankBefore(line, Len(line) - 4) + 1, Len(line) - 4)
  ELSE SubSeq(line, 3, FirstBlankFrom(line, 3) - 1)

\* what follows "Total: " in the total line
TotalText(line) ==
  LET i == CHOOSE k \in 0..(Len(line) - Len(TotalMark)) :
             SubSeq(line, k + 1, k + Len(TotalMark)) = TotalMark
  IN SubSeq(line, i + Len(TotalMark) + 1, Len(line))

NotComma(c) == c # ","

\* one sign, "+" for an amount >= 0 and "-" for a negative one, then the
\* absolute value in digits (grouped by commas or not)
SignedText(x, amount) ==
  /\ Len(x) >= 2
  /\ x[1] = (IF amount >= 0 THEN "+" ELSE "-")
  /\ IsDigit(x[2])
  /\ IsDigit(x[Len(x)])
  /\ \A i \in 2..Len(x) : IsDigit(x[i]) \/ x[i] = ","
  /\ (x[2] = "0" => Len(x) = 2)
  /\ DigitsValue(SelectSeq(Tail(x), NotComma)) = Abs(amount)

\* C14: in a report every entry with an amount >= 0 is shown with "+", every
\* negative one with "-", one sign and then the absolute value; the persisted
\* bot adds the indicator of the sign; the total line is written the same
\* way.
C14_SignConvention ==
  (Rendering /\ reply.kind # "no_entries" /\ InStore(reply.about)) =>
    LET es == StoredEntries(reply.about)
        lines == ListingLines(reply.text)
        totals == TotalLines(reply.text)
    IN /\ Len(lines) = Len(es)
       /\ \A i \in 1..Len(es) :
            /\ SignedText(AmountText(lines[i]), es[i].amount)
            /\ bot = "persisted" =>
                 lines[i][1] = (IF es[i].amount >= 0 THEN "money-bag"
                                ELSE "money-wings")
       /\ Len(totals) = 1
       /\ SignedText(TotalText(totals[1]), SumAmounts(es))

C14_Witness ==
  /\ reply.kind \in {"formatResponse", "parseTransactions"}
  /\ InStore(reply.about)
  /\ Len(StoredEntries(reply.about)) = MaxEntries
  /\ StoredEntries(reply.about)[1].amount = 0 - 1000
  /\ StoredEntries(reply.about)[2].amount = 0
  /\ StoredEntries(reply.about)[1].description = <<"a", " ", "-">>

\* the label and the amount read back from a line of the listing
ReadBack(line) ==
  [label |-> IF line[1] = "-"
             THEN SubSeq(line, 3, LastBlankBefore(line, Len(line) - 4) - 1)
             ELSE SubSeq(line, FirstBlankFrom(line, 3) + 3, Len(line) - 1),
   amount |-> ParseInt(SelectSeq(AmountText(line), NotComma))]

\* the label and the amount of a stored entry, and of what a text appends
Listed(e) ==
  [label |-> IF bot = "memory" THEN e.description ELSE e.label,
   amount |-> e.amount]

Appended(text, about) ==
  IF bot = "memory" THEN parseFinancialEntries(text)
  ELSE <<[label |-> Trim(parseMessage(text).label),
          amount |-> TransactionParams(parseMessage(text), about).amount]>>

TotalLast(text) ==
  LET ls == Split(text, "\n")
  IN \A i \in 1..Len(ls), j \in 1..Len(ls) :
       (ListsEntry(ls[i]) /\ HasTotal(ls[j])) => i < j

\* C15: a text message that appends entries to an account is answered with a
\* report of the account: one line for every entry appended to it so far, the
\* earlier entries first and the new ones after them in the order they were
\* written, then one total line, whose value is the balance of the account.
C15_RoundTrip ==
  [][\A u \in Users, text \in Messages :
       (reply'.kind = "report" /\ (OnText(u, text) \/ OnTextMessage(u, text)))
       => LET about == reply'.about
              before == IF InStore(about) THEN StoredEntries(about) ELSE <<>>
              added == Appended(text, about)
              lines == ListingLines(reply'.text)
              totals == TotalLines(reply'.text)
          IN /\ Len(lines) = Len(before) + Len(added)
             /\ \A i \in 1..Len(before) : ReadBack(lines[i]) = Listed(before[i])
             /\ \A i \in 1..Len(added) :
                  ReadBack(lines[Len(before) + i]) = Listed(added[i])
             /\ Len(totals) = 1
             /\ TotalLast(reply'.text)
             /\ ParseInt(SelectSeq(TotalText(totals[1]), NotComma))
                  = ledger'[about]]_vars

C15_Witness ==
  /\ reply.kind = "report"
  /\ InStore(reply.about)
  /\ Len(StoredEntries(reply.about)) = 2
  /\ Listed(StoredEntries(reply.about)[1]) # Listed(StoredEntries(reply.about)[2])
  /\ Len(ListingLines(reply.text)) = 2
  /\ ReadBack(ListingLines(reply.text)[2]) = Listed(StoredEntries(reply.about)[2])

\* C16: while the text handlers of several users wait for their replies to be
\* sent, a handler that appends to the account they share adds its entries
\* once, after the entries already there, and touches no other receipt; a
\* handler that resumes, or whose reply fails, changes no entry; so the balance
\* of every account stays the sum of what was appended to it.
C16_NoLostEntry ==
  /\ [](\A n \in DOMAIN receipts :
          calculateReceiptTotal(receipts, n) = ledger[n])
  /\ [][\A u \in Users :
          /\ \A text \in Messages :
               (TextBegin(u, text) /\ reply'.kind = "report") =>
                 LET about == reply'.about
                     before == IF about \in DOMAIN receipts
                               THEN receipts[about].entries ELSE <<>>
                 IN /\ receipts'[about].entries
                         = before \o parseFinancialEntries(text)
                    /\ \A n \in DOMAIN receipts \ {about} :
                         receipts'[n] = receipts[n]
          /\ (TextEnd(u) \/ TextReplyFails(u)) => UNCHANGED receipts]_vars

C16_Witness ==
  \E u \in DOMAIN suspended : \E v \in DOMAIN suspended \ {u} :
    /\ suspended[u].kind = "report"
    /\ suspended[v].kind = "report"
    /\ suspended[u].about = suspended[v].about
    /\ Len(receipts[suspended[u].about].entries) = 2
    /\ Len(ListingLines(reply.text)) = 2

\* the name a /new or an awaited account name asks for
NewName(tail) == Join(CommandArgs(<<"n", "e", "w">>, tail), "_")

C18_ClearsCurrent ==
  [][\A u \in Users :
       (CmdClear(u) /\ ~Falsy(CurrentOf(userSessions, u))) =>
         LET cur == CurrentOf(userSessions, u)
         IN /\ CurrentOf(userSessions', u) = cur
            /\ \A v \in Users \ {u} :
                 CurrentOf(userSessions', v) = CurrentOf(userSessions, v)
            /\ \A n \in DOMAIN receipts \ {cur} :
                 n \in DOMAIN receipts' /\ receipts'[n] = receipts[n]
            /\ cur \in DOMAIN receipts'
            /\ receipts'[cur].entries = <<>>
            /\ calculateReceiptTotal(receipts', cur) = 0]_vars

\* what holds of /clear: the same, for a current receipt that is in the
\* store; one that was deleted is not brought back, and nothing changes
C18_ClearFrame ==
  [][\A u \in Users :
       CmdClear(u) =>
         LET cur == CurrentOf(userSessions, u)
         IN /\ CurrentOf(userSessions', u) = cur
            /\ \A v \in Users \ {u} :
                 CurrentOf(userSessions', v) = CurrentOf(userSessions, v)
            /\ DOMAIN receipts' = DOMAIN receipts
            /\ \A n \in DOMAIN receipts \ {cur} : receipts'[n] = receipts[n]
            /\ (cur \in DOMAIN receipts) =>
                 /\ reply' = Reply("cleared", cur)
                 /\ receipts'[cur] = [name |-> cur, entries |-> <<>>]
                 /\ calculateReceiptTotal(receipts', cur) = 0]_vars

\* C19: in the in-memory bot the current receipt of every session is
\* undefined or the name of a receipt that is in the store.
C19_CurrentExists ==
  bot = "memory" =>
    \A u \in DOMAIN userSessions :
      \/ userSessions[u].currentReceipt = Undefined
      \/ userSessions[u].currentReceipt \in DOMAIN receipts

\* C20: in the in-memory bot a text message leaves the set of receipt names
\* as it is: only /new adds a name, only /delete removes one.
C20_TextKeepsNames ==
  [][\A u \in Users, text \in Messages :
       OnText(u, text) => DOMAIN receipts' = DOMAIN receipts]_vars

\* C21: in the persisted bot the text message that follows create_account is
\* taken as the name of the new account, whatever it looks like: it is not
\* parsed and no transaction is stored; the flag is down after that one
\* message, whether the account was created or not; a text message that
\* arrives while the flag is down is handled as a transaction (or told that
\* no account is selected) and creates no account; nothing but create_account
\* raises the flag.
C21_NameThenTransactions ==
  [][/\ \A u \in Users, text \in Messages :
          OnTextMessage(u, text) =>
            /\ ~awaitingAccountCreation'
            /\ IF awaitingAccountCreation
               THEN /\ Transactions' = Transactions
                    /\ selectedAccountId' = selectedAccountId
                    /\ reply'.kind \in {"account_created", "create_failed"}
                    /\ reply'.kind = "account_created" =>
                         /\ Len(Accounts') = Len(Accounts) + 1
                         /\ Accounts'[Len(Accounts')].name = Trim(text)
                    /\ reply'.kind = "create_failed" => Accounts' = Accounts
               ELSE /\ Accounts' = Accounts
                    /\ reply'.kind \in {"no_account_selected", "report",
                                        "format_help", "uncaught_error"}
                    /\ reply'.kind = "report" <=>
                         Len(Transactions') = Len(Transactions) + 1
     /\ \A u \in Users : CreateAccountPrompt(u) => awaitingAccountCreation'
     /\ (awaitingAccountCreation' /\ ~awaitingAccountCreation) =>
          \E u \in Users : CreateAccountPrompt(u)]_vars

C21_Witness ==
  /\ bot = "persisted"
  /\ reply.kind = "account_created"
  /\ ~awaitingAccountCreation
  /\ Transactions = <<>>
  /\ Len(Accounts) = 1
  /\ Accounts[1].name = <<"a", " ", "-", "1">>
  /\ parseMessage(Accounts[1].name) # Null

====
